---- MODULE Spec2Model ----
(***************************************************************************)
(* Model of the decision-synthesis core of the investment advisor          *)
(* (src/src/decision_engine.py): DecisionEngine.__init__,                  *)
(* generate_recommendation, compare_recommendations and                    *)
(* _generate_diversification_suggestions.                                  *)
(*                                                                         *)
(* Units.  Python floats are modelled as scaled integers:                  *)
(*   dip_percentage, currency_change_pct, m2_yoy_growth : tenths of a      *)
(*       percent (-7.0% is -70);                                           *)
(*   rsi : RSI points;                                                     *)
(*   overall_sentiment, bullish_ratio, recession_probability,              *)
(*   ai_bubble_risk, confidence : hundredths (0.25 is 25).                 *)
(* Python's None is the empty sequence and a present optional value v is   *)
(* the one-element sequence <<v>>.  Reason strings are modelled by their   *)
(* fixed text; the formatted numbers inside them are left out, but a       *)
(* format applied to None raises TypeError as in Python.                   *)
(***************************************************************************)
EXTENDS Integers, Sequences, FiniteSets, TLC

VARIABLES
    risk_tolerance_arg,  \* the token passed to DecisionEngine(risk_tolerance=...)
    engine,              \* the DecisionEngine object (or the failed construction)
    index_name,          \* argument of generate_recommendation
    factors,             \* argument of generate_recommendation (DecisionFactors)
    result,              \* what generate_recommendation returned or raised
    sp500_result,        \* arguments of compare_recommendations
    cw8_result,
    stoxx600_result,
    comparison,          \* what compare_recommendations returned
    calls,               \* the generate_recommendation calls in progress
    db,                  \* the Database object and the SQLite file behind it
    driver               \* the command-line driver: its options and progress

vars == <<risk_tolerance_arg, engine, index_name, factors, result,
          sp500_result, cw8_result, stoxx600_result, comparison, calls, db,
          driver>>

----------------------------------------------------------------------------
(* Python values *)

None == <<>>

Some(v) == <<v>>

\* Python truthiness of an Optional[str]: None and "" are falsy.
Truthy(opt) == opt # None /\ opt # Some("")

Min(a, b) == IF a <= b THEN a ELSE b

Max(a, b) == IF a >= b THEN a ELSE b

Abs(a) == IF a < 0 THEN -a ELSE a

----------------------------------------------------------------------------
(* Enumerations *)

RecommendationValues == {"STRONG_BUY", "BUY", "HOLD", "AVOID"}

RiskToleranceValues == {"conservative", "moderate", "aggressive"}

\* Variant of RiskTolerance that falls back to the default profile.
RiskToleranceCoerced(value) ==
    IF value \in RiskToleranceValues THEN value ELSE "moderate"

\* RiskTolerance(value): the member whose value is `value`, else ValueError.
RiskTolerance(value) ==
    IF value \in RiskToleranceValues THEN value ELSE "ValueError"

NoEngine == [status |-> "none", risk_tolerance |-> "none"]

\* RISK_PROFILES of the configuration, with the engine's key names
\* (strong_buy_score, buy_score, hold_score).
RISK_PROFILES ==
    [conservative |-> [strong_buy |-> 60, buy |-> 40, hold |-> 20],
     moderate     |-> [strong_buy |-> 50, buy |-> 30, hold |-> 10],
     aggressive   |-> [strong_buy |-> 40, buy |-> 20, hold |-> 0]]

\* Variant of Thresholds whose aggressive hold cutoff was raised above the
\* moderate one.
ThresholdsAggressiveHoldRaised ==
    [conservative |-> [strong_buy |-> 70, buy |-> 50, hold |-> 30],
     moderate     |-> [strong_buy |-> 60, buy |-> 40, hold |-> 20],
     aggressive   |-> [strong_buy |-> 50, buy |-> 30, hold |-> 25]]

\* self.thresholds, for each risk tolerance.
Thresholds ==
    [conservative |-> [strong_buy |-> 70, buy |-> 50, hold |-> 30],
     moderate     |-> [strong_buy |-> 60, buy |-> 40, hold |-> 20],
     aggressive   |-> [strong_buy |-> 50, buy |-> 30, hold |-> 10]]

\* DecisionEngine.__init__
NewEngine(risk_tolerance) ==
    LET member == RiskTolerance(risk_tolerance) IN
    IF member = "ValueError"
    THEN [status |-> "ValueError", risk_tolerance |-> "none"]
    ELSE [status |-> "ok", risk_tolerance |-> member]

----------------------------------------------------------------------------
(* generate_recommendation: the evaluators, in the order of the code.      *)
(* Each yields its score delta, the reasons and risk factors it appends,   *)
(* and whether it raised.                                                  *)

Step(delta, reasons, risk_factors) ==
    [delta |-> delta, reasons |-> reasons, risk_factors |-> risk_factors,
     raised |-> FALSE]

\* f"{x:.1f}" and abs(x): TypeError when x is None.
Formats(opt) == opt # None

StepFormatting(opt, delta, reasons, risk_factors) ==
    [delta |-> delta, reasons |-> reasons, risk_factors |-> risk_factors,
     raised |-> ~Formats(opt)]

\* Variant of DipEval whose major-dip band starts at -10% instead of -7%.
DipEvalMajorAtTen(f) ==
    IF f.dip_percentage < -100 THEN Step(35, <<"Major dip">>, <<>>)
    ELSE IF f.dip_percentage < -50 THEN Step(30, <<"Significant dip">>, <<>>)
    ELSE IF f.dip_percentage < -30 THEN Step(20, <<"Moderate dip">>, <<>>)
    ELSE IF f.dip_percentage < -10 THEN Step(10, <<"Small dip">>, <<>>)
    ELSE Step(-5, <<>>, <<"Near high">>)

DipEval(f) ==
    IF f.dip_percentage < -70 THEN Step(35, <<"Major dip">>, <<>>)
    ELSE IF f.dip_percentage < -50 THEN Step(30, <<"Significant dip">>, <<>>)
    ELSE IF f.dip_percentage < -30 THEN Step(20, <<"Moderate dip">>, <<>>)
    ELSE IF f.dip_percentage < -10 THEN Step(10, <<"Small dip">>, <<>>)
    ELSE Step(-5, <<>>, <<"Near high">>)

RsiEval(f) ==
    IF f.rsi < 30 THEN Step(25, <<"Oversold">>, <<>>)
    ELSE IF f.rsi < 40 THEN Step(15, <<"Approaching oversold">>, <<>>)
    ELSE IF f.rsi > 70 THEN Step(-20, <<>>, <<"Overbought">>)
    ELSE IF f.rsi > 60 THEN Step(-10, <<>>, <<"Elevated RSI">>)
    ELSE Step(0, <<>>, <<>>)

TrendEval(f) ==
    IF f.trend \in {"strong_uptrend", "uptrend"}
    THEN Step(10, <<"Trend up">>, <<>>)
    ELSE IF f.trend \in {"strong_downtrend", "downtrend"}
    THEN Step(-15, <<>>, <<"Trend down">>)
    ELSE Step(0, <<>>, <<>>)

GoldenCrossEval(f) ==
    IF f.golden_cross THEN Step(5, <<"Golden cross (bullish)">>, <<>>)
    ELSE Step(0, <<>>, <<>>)

\* Variant of MacdEval without the -5 of a bearish MACD.
MacdEvalNoPenalty(f) ==
    IF f.macd_bullish THEN Step(10, <<"MACD bullish crossover">>, <<>>)
    ELSE Step(0, <<>>, <<>>)

MacdEval(f) ==
    IF f.macd_bullish THEN Step(10, <<"MACD bullish crossover">>, <<>>)
    ELSE Step(-5, <<>>, <<>>)

M2Eval(f) ==
    IF f.m2_yoy_growth # None
    THEN IF f.m2_score >= 20
         THEN Step(f.m2_score, <<"Strong M2 expansion">>, <<>>)
         ELSE IF f.m2_score >= 10
         THEN Step(f.m2_score, <<"M2 expanding">>, <<>>)
         ELSE IF f.m2_score <= -15
         THEN Step(f.m2_score, <<>>, <<"M2 contracting">>)
         ELSE Step(f.m2_score, <<>>, <<>>)
    ELSE Step(0, <<>>, <<"M2 data not available">>)

SentimentEval(f) ==
    IF f.overall_sentiment > 20
    THEN Step(20, <<"Strong positive sentiment">>, <<>>)
    ELSE IF f.overall_sentiment > 5
    THEN Step(10, <<"Positive sentiment">>, <<>>)
    ELSE IF f.overall_sentiment < -20
    THEN Step(-20, <<>>, <<"Negative sentiment">>)
    ELSE IF f.overall_sentiment < -5
    THEN Step(-10, <<>>, <<"Slightly negative sentiment">>)
    ELSE Step(0, <<>>, <<>>)

MarketToneEval(f) ==
    IF f.market_tone = "bullish" /\ f.bullish_ratio > 25
    THEN Step(10, <<"Bullish market tone">>, <<>>)
    ELSE IF f.market_tone = "bearish"
    THEN Step(-15, <<>>, <<"Bearish market tone">>)
    ELSE Step(0, <<>>, <<>>)

\* Variant of RecessionEval whose low-risk bonus applies below 0.3
\* instead of below 0.1.
RecessionEvalLowBelowThirty(f) ==
    IF f.recession_probability > 60
    THEN Step(-40, <<>>, <<"High recession risk">>)
    ELSE IF f.recession_probability > 30
    THEN Step(-20, <<>>, <<"Moderate recession risk">>)
    ELSE IF f.recession_probability < 30
    THEN Step(5, <<"Low recession risk">>, <<>>)
    ELSE Step(0, <<>>, <<>>)

RecessionEval(f) ==
    IF f.recession_probability > 60
    THEN Step(-40, <<>>, <<"High recession risk">>)
    ELSE IF f.recession_probability > 30
    THEN Step(-20, <<>>, <<"Moderate recession risk">>)
    ELSE IF f.recession_probability < 10
    THEN Step(5, <<"Low recession risk">>, <<>>)
    ELSE Step(0, <<>>, <<>>)

BubbleEval(f) ==
    IF f.ai_bubble_risk > 60
    THEN Step(-30, <<>>, <<"High AI/tech bubble risk">>)
    ELSE IF f.ai_bubble_risk > 40
    THEN Step(-15, <<>>, <<"Moderate AI bubble concerns">>)
    ELSE IF f.ai_bubble_risk < 20
    THEN Step(5, <<"Low bubble risk">>, <<>>)
    ELSE Step(0, <<>>, <<>>)

VolatilityEval(f) ==
    IF f.volatility_level = "high" THEN Step(-10, <<>>, <<"High volatility">>)
    ELSE IF f.volatility_level = "low" THEN Step(5, <<"Low volatility">>, <<>>)
    ELSE Step(0, <<>>, <<>>)

\* Variant of CurrencyEval that tests the impact before the risk level.
CurrencyEvalImpactFirst(idx, f) ==
    IF idx = "SP500" /\ Truthy(f.currency_risk_level)
    THEN IF f.currency_impact = Some("positive")
         THEN StepFormatting(f.currency_change_pct, 10, <<"Currency tailwind">>, <<>>)
         ELSE IF f.currency_risk_level = Some("high")
         THEN StepFormatting(f.currency_change_pct, -25, <<>>, <<"CURRENCY DRAG">>)
         ELSE IF f.currency_risk_level = Some("moderate")
         THEN StepFormatting(f.currency_change_pct, -15, <<>>, <<"Currency headwind">>)
         ELSE Step(0, <<>>, <<>>)
    ELSE IF idx = "STOXX600"
    THEN Step(5, <<"No currency risk (EUR-denominated)">>, <<>>)
    ELSE Step(0, <<>>, <<>>)

\* Variant of CurrencyEval that applies the currency bands to every index
\* but STOXX600.
CurrencyEvalAnyIndex(idx, f) ==
    IF idx # "STOXX600" /\ Truthy(f.currency_risk_level)
    THEN IF f.currency_risk_level = Some("high")
         THEN StepFormatting(f.currency_change_pct, -25, <<>>, <<"CURRENCY DRAG">>)
         ELSE IF f.currency_risk_level = Some("moderate")
         THEN StepFormatting(f.currency_change_pct, -15, <<>>, <<"Currency headwind">>)
         ELSE IF f.currency_impact = Some("positive")
         THEN StepFormatting(f.currency_change_pct, 10, <<"Currency tailwind">>, <<>>)
         ELSE Step(0, <<>>, <<>>)
    ELSE IF idx = "STOXX600"
    THEN Step(5, <<"No currency risk (EUR-denominated)">>, <<>>)
    ELSE Step(0, <<>>, <<>>)

CurrencyEval(idx, f) ==
    IF idx = "SP500" /\ Truthy(f.currency_risk_level)
    THEN IF f.currency_risk_level = Some("high")
         THEN StepFormatting(f.currency_change_pct, -25, <<>>, <<"CURRENCY DRAG">>)
         ELSE IF f.currency_risk_level = Some("moderate")
         THEN StepFormatting(f.currency_change_pct, -15, <<>>, <<"Currency headwind">>)
         ELSE IF f.currency_impact = Some("positive")
         THEN StepFormatting(f.currency_change_pct, 10, <<"Currency tailwind">>, <<>>)
         ELSE Step(0, <<>>, <<>>)
    ELSE IF idx = "STOXX600"
    THEN Step(5, <<"No currency risk (EUR-denominated)">>, <<>>)
    ELSE Step(0, <<>>, <<>>)

\* The evaluators in execution order.
Evaluators(idx, f) ==
    << DipEval(f), RsiEval(f), TrendEval(f), GoldenCrossEval(f), MacdEval(f),
       M2Eval(f), SentimentEval(f), MarketToneEval(f), RecessionEval(f),
       BubbleEval(f), VolatilityEval(f), CurrencyEval(idx, f) >>

RECURSIVE SumDeltas(_)
SumDeltas(steps) ==
    IF steps = <<>> THEN 0 ELSE Head(steps).delta + SumDeltas(Tail(steps))

RECURSIVE AllReasons(_)
AllReasons(steps) ==
    IF steps = <<>> THEN <<>> ELSE Head(steps).reasons \o AllReasons(Tail(steps))

RECURSIVE AllRiskFactors(_)
AllRiskFactors(steps) ==
    IF steps = <<>> THEN <<>>
    ELSE Head(steps).risk_factors \o AllRiskFactors(Tail(steps))

\* Variant of Classify with strict cutoffs (> in place of >=).
ClassifyStrict(score, thresholds) ==
    IF score > thresholds.strong_buy
    THEN [recommendation |-> "STRONG_BUY", confidence |-> Min(score, 95)]
    ELSE IF score > thresholds.buy
    THEN [recommendation |-> "BUY", confidence |-> Min(score, 85)]
    ELSE IF score > thresholds.hold
    THEN [recommendation |-> "HOLD", confidence |-> Min(score, 70)]
    ELSE [recommendation |-> "AVOID", confidence |-> Min(Abs(score), 80)]

\* Variant of Classify whose AVOID confidence omits abs().
ClassifySigned(score, thresholds) ==
    IF score >= thresholds.strong_buy
    THEN [recommendation |-> "STRONG_BUY", confidence |-> Min(score, 95)]
    ELSE IF score >= thresholds.buy
    THEN [recommendation |-> "BUY", confidence |-> Min(score, 85)]
    ELSE IF score >= thresholds.hold
    THEN [recommendation |-> "HOLD", confidence |-> Min(score, 70)]
    ELSE [recommendation |-> "AVOID", confidence |-> Min(score, 80)]

\* The final classification; confidence in hundredths.
Classify(score, thresholds) ==
    IF score >= thresholds.strong_buy
    THEN [recommendation |-> "STRONG_BUY", confidence |-> Min(score, 95)]
    ELSE IF score >= thresholds.buy
    THEN [recommendation |-> "BUY", confidence |-> Min(score, 85)]
    ELSE IF score >= thresholds.hold
    THEN [recommendation |-> "HOLD", confidence |-> Min(score, 70)]
    ELSE [recommendation |-> "AVOID", confidence |-> Min(Abs(score), 80)]

NoResult ==
    [status |-> "none", recommendation |-> "none", confidence |-> 0, score |-> 0,
     reasons |-> <<>>, risk_factors |-> <<>>, risk_tolerance |-> "none"]

Raised(error) == [NoResult EXCEPT !.status = error]

\* DecisionEngine.generate_recommendation
generate_recommendation(self, idx, f) ==
    LET steps == Evaluators(idx, f)
        score == SumDeltas(steps)
        final == Classify(score, Thresholds[self.risk_tolerance])
    IN  IF \E i \in 1..Len(steps) : steps[i].raised
        THEN Raised("TypeError")
        ELSE [status |-> "ok",
              recommendation |-> final.recommendation,
              confidence |-> final.confidence,
              score |-> score,
              reasons |-> AllReasons(steps),
              risk_factors |-> AllRiskFactors(steps),
              risk_tolerance |-> self.risk_tolerance]

----------------------------------------------------------------------------
(* compare_recommendations                                                 *)

\* The `scores` dict, as its items in insertion order.
CollectScores(sp500, cw8, stoxx600) ==
    IF stoxx600.status # "none"
    THEN << [name |-> "sp500", score |-> sp500.score],
            [name |-> "cw8", score |-> cw8.score],
            [name |-> "stoxx600", score |-> stoxx600.score] >>
    ELSE << [name |-> "sp500", score |-> sp500.score],
            [name |-> "cw8", score |-> cw8.score] >>

ScoreOf(scores, name) ==
    LET i == CHOOSE i \in 1..Len(scores) : scores[i].name = name IN scores[i].score

\* max(scores, key=scores.get): the first key, in insertion order, whose
\* score is the maximum.
BestIndex(scores) ==
    LET i == CHOOSE i \in 1..Len(scores) :
                 /\ \A j \in 1..Len(scores) : scores[j].score <= scores[i].score
                 /\ \A j \in 1..(i-1) : scores[j].score < scores[i].score
    IN  scores[i].name

\* min(scores.values())
WorstScore(scores) ==
    LET i == CHOOSE i \in 1..Len(scores) :
                 \A j \in 1..Len(scores) : scores[i].score <= scores[j].score
    IN  scores[i].score

BestScore(scores) == ScoreOf(scores, BestIndex(scores))

\* The 3-way preference and message.
ThreeWay(scores) ==
    IF BestScore(scores) - WorstScore(scores) < 10
    THEN [preference |-> "multiple",
          message |-> "All indices show similar opportunities - consider diversifying"]
    ELSE [preference |-> BestIndex(scores),
          message |->
             CASE BestIndex(scores) = "stoxx600" ->
                     "STOXX 600 shows strongest opportunity (+ no currency risk!)"
               [] BestIndex(scores) = "sp500" ->
                     "S&P 500 shows strongest opportunity (watch dollar impact)"
               [] OTHER ->
                     "MSCI World shows strongest opportunity (global diversification)"]

\* Variant of TwoWay that prefers an index from a gap of 15 on (>=).
TwoWayInclusive(scores) ==
    IF ScoreOf(scores, "sp500") >= ScoreOf(scores, "cw8") + 15
    THEN [preference |-> "sp500", message |-> "S&P 500 shows stronger opportunity"]
    ELSE IF ScoreOf(scores, "cw8") >= ScoreOf(scores, "sp500") + 15
    THEN [preference |-> "cw8",
          message |-> "MSCI World (CW8) shows stronger opportunity"]
    ELSE [preference |-> "both",
          message |-> "Both indices show similar opportunities"]

\* Variant of TwoWay whose gap has the wrong sign (- 15 for + 15).
TwoWayGapSubtracted(scores) ==
    IF ScoreOf(scores, "sp500") > ScoreOf(scores, "cw8") - 15
    THEN [preference |-> "sp500", message |-> "S&P 500 shows stronger opportunity"]
    ELSE IF ScoreOf(scores, "cw8") > ScoreOf(scores, "sp500") - 15
    THEN [preference |-> "cw8",
          message |-> "MSCI World (CW8) shows stronger opportunity"]
    ELSE [preference |-> "both",
          message |-> "Both indices show similar opportunities"]

\* The 2-way preference and message.
TwoWay(scores) ==
    IF ScoreOf(scores, "sp500") > ScoreOf(scores, "cw8") + 15
    THEN [preference |-> "sp500", message |-> "S&P 500 shows stronger opportunity"]
    ELSE IF ScoreOf(scores, "cw8") > ScoreOf(scores, "sp500") + 15
    THEN [preference |-> "cw8",
          message |-> "MSCI World (CW8) shows stronger opportunity"]
    ELSE [preference |-> "both",
          message |-> "Both indices show similar opportunities"]

\* results = [sp500_result, cw8_result] (+ stoxx600_result)
ResultList(sp500, cw8, stoxx600) ==
    IF stoxx600.status # "none" THEN <<sp500, cw8, stoxx600>> ELSE <<sp500, cw8>>

BuyCount(results) ==
    Cardinality({i \in 1..Len(results) :
                    results[i].recommendation \in {"STRONG_BUY", "BUY"}})

HoldCount(results) ==
    Cardinality({i \in 1..Len(results) : results[i].recommendation = "HOLD"})

InvestAction(buy_count, n) ==
    CASE buy_count = 2 /\ n = 2 ->
            "Good time to invest - 2 of 2 indices show buy signals"
      [] buy_count = 2 /\ n = 3 ->
            "Good time to invest - 2 of 3 indices show buy signals"
      [] OTHER ->
            "Good time to invest - 3 of 3 indices show buy signals"

\* Variant of Overall that calls INVEST on a single buy signal.
OverallAnyBuy(results, preference, has_stoxx600) ==
    IF BuyCount(results) >= 1
    THEN [overall |-> "INVEST",
          action |-> InvestAction(BuyCount(results), Len(results))]
    ELSE IF HoldCount(results) > 0
    THEN [overall |-> "WAIT",
          action |-> "Wait for better entry point or more clarity"]
    ELSE [overall |-> "AVOID",
          action |-> "Not a good time to invest - multiple risk factors present"]

\* Variant of Overall whose SELECTIVE action names S&P 500 and MSCI World
\* the wrong way round.
OverallNamesSwapped(results, preference, has_stoxx600) ==
    IF BuyCount(results) >= 2
    THEN [overall |-> "INVEST",
          action |-> InvestAction(BuyCount(results), Len(results))]
    ELSE IF BuyCount(results) >= 1
    THEN [overall |-> "SELECTIVE",
          action |->
             IF has_stoxx600 /\ preference = "stoxx600"
             THEN "Consider investing in STOXX 600 (European focus, no FX risk)"
             ELSE IF preference = "cw8"
             THEN "Consider investing in S&P 500"
             ELSE IF preference = "sp500"
             THEN "Consider investing in MSCI World (CW8)"
             ELSE "Consider selective investment in better-performing indices"]
    ELSE IF HoldCount(results) > 0
    THEN [overall |-> "WAIT",
          action |-> "Wait for better entry point or more clarity"]
    ELSE [overall |-> "AVOID",
          action |-> "Not a good time to invest - multiple risk factors present"]

\* The overall recommendation and the action text.
Overall(results, preference, has_stoxx600) ==
    IF BuyCount(results) >= 2
    THEN [overall |-> "INVEST",
          action |-> InvestAction(BuyCount(results), Len(results))]
    ELSE IF BuyCount(results) >= 1
    THEN [overall |-> "SELECTIVE",
          action |->
             IF has_stoxx600 /\ preference = "stoxx600"
             THEN "Consider investing in STOXX 600 (European focus, no FX risk)"
             ELSE IF preference = "sp500"
             THEN "Consider investing in S&P 500"
             ELSE IF preference = "cw8"
             THEN "Consider investing in MSCI World (CW8)"
             ELSE "Consider selective investment in better-performing indices"]
    ELSE IF HoldCount(results) > 0
    THEN [overall |-> "WAIT",
          action |-> "Wait for better entry point or more clarity"]
    ELSE [overall |-> "AVOID",
          action |-> "Not a good time to invest - multiple risk factors present"]

----------------------------------------------------------------------------
(* _generate_diversification_suggestions                                   *)

\* Integer division truncating toward zero, for a positive divisor.
TruncDiv(a, b) == IF a >= 0 THEN a \div b ELSE -((-a) \div b)

\* The pairs <<score, total>>, for -100 <= score <= 200 and
\* 0 < total <= 600, at which the double (score / total) * 100 falls just
\* below the integer 100 * score / total, so that int() yields one less in
\* magnitude (for instance (29 / 100) * 100 = 28.999999999999996).
FloatShortfall ==
    { <<-97, 5>>, <<-97, 10>>, <<-97, 20>>, <<-92, 5>>, <<-92, 10>>, <<-92, 20>>,
      <<-92, 40>>, <<-92, 80>>, <<-87, 5>>, <<-87, 10>>, <<-87, 20>>, <<-87, 75>>,
      <<-87, 150>>, <<-87, 300>>, <<-82, 5>>, <<-82, 10>>, <<-82, 20>>, <<-82, 40>>,
      <<-69, 15>>, <<-69, 30>>, <<-69, 60>>, <<-58, 25>>, <<-58, 50>>, <<-58, 100>>,
      <<-58, 200>>, <<-57, 25>>, <<-57, 50>>, <<-57, 100>>, <<-51, 5>>, <<-51, 10>>,
      <<-51, 20>>, <<-46, 5>>, <<-46, 10>>, <<-46, 20>>, <<-46, 40>>, <<-41, 5>>,
      <<-41, 10>>, <<-41, 20>>, <<-29, 25>>, <<-29, 50>>, <<-29, 100>>, <<-23, 5>>,
      <<-23, 10>>, <<-23, 20>>, <<23, 5>>, <<23, 10>>, <<23, 20>>, <<29, 25>>,
      <<29, 50>>, <<29, 100>>, <<41, 5>>, <<41, 10>>, <<41, 20>>, <<46, 5>>,
      <<46, 10>>, <<46, 20>>, <<46, 40>>, <<51, 5>>, <<51, 10>>, <<51, 20>>,
      <<57, 25>>, <<57, 50>>, <<57, 100>>, <<58, 25>>, <<58, 50>>, <<58, 100>>,
      <<58, 200>>, <<69, 15>>, <<69, 30>>, <<69, 60>>, <<82, 5>>, <<82, 10>>,
      <<82, 20>>, <<82, 40>>, <<87, 5>>, <<87, 10>>, <<87, 20>>, <<87, 75>>,
      <<87, 150>>, <<87, 300>>, <<92, 5>>, <<92, 10>>, <<92, 20>>, <<92, 40>>,
      <<92, 80>>, <<97, 5>>, <<97, 10>>, <<97, 20>>, <<102, 5>>, <<102, 10>>,
      <<102, 20>>, <<102, 40>>, <<113, 25>>, <<113, 50>>, <<113, 100>>, <<114, 25>>,
      <<114, 50>>, <<114, 100>>, <<114, 200>>, <<115, 25>>, <<115, 50>>, <<115, 100>>,
      <<116, 25>>, <<116, 50>>, <<116, 100>>, <<116, 200>>, <<116, 400>>, <<123, 15>>,
      <<123, 30>>, <<123, 60>>, <<138, 15>>, <<138, 30>>, <<138, 60>>, <<138, 120>>,
      <<145, 125>>, <<145, 250>>, <<145, 500>>, <<153, 15>>, <<153, 30>>, <<153, 60>>,
      <<161, 35>>, <<161, 70>>, <<161, 140>>, <<164, 5>>, <<164, 10>>, <<164, 20>>,
      <<164, 40>>, <<164, 80>>, <<169, 5>>, <<169, 10>>, <<169, 20>>, <<171, 75>>,
      <<171, 150>>, <<171, 300>>, <<174, 5>>, <<174, 10>>, <<174, 20>>, <<174, 40>>,
      <<174, 75>>, <<174, 150>>, <<174, 300>>, <<174, 600>>, <<179, 5>>, <<179, 10>>,
      <<179, 20>>, <<184, 5>>, <<184, 10>>, <<184, 20>>, <<184, 40>>, <<184, 80>>,
      <<184, 160>>, <<189, 5>>, <<189, 10>>, <<189, 20>>, <<194, 5>>, <<194, 10>>,
      <<194, 20>>, <<194, 40>>, <<199, 5>>, <<199, 10>>, <<199, 20>> }

\* int((score / total) * 100), computed in double precision.
IntPct(score, total) ==
    LET exact == TruncDiv(100 * score, total) IN
    IF <<score, total>> \in FloatShortfall
    THEN (IF exact > 0 THEN exact - 1 ELSE exact + 1)
    ELSE exact

\* The 2-way base split <<sp500_pct, cw8_pct>>.
TwoWayBase(scores) ==
    LET total == ScoreOf(scores, "sp500") + ScoreOf(scores, "cw8") IN
    IF total > 0
    THEN LET sp500_pct == Max(0, Min(100, IntPct(ScoreOf(scores, "sp500"), total)))
         IN  <<sp500_pct, 100 - sp500_pct>>
    ELSE <<50, 50>>

\* Variant of TwoWayAggressive without the cap of 70 on the sp500 leg.
TwoWayAggressiveUncapped(scores) ==
    LET sp500_pct == TwoWayBase(scores)[1]
        cw8_pct == TwoWayBase(scores)[2]
    IN  [sp500 |-> sp500_pct + 10,
         cw8 |-> Max(cw8_pct - 10, 30),
         description |-> <<"Higher concentration in best performer">>]

\* The 2-way aggressive profile.
TwoWayAggressive(scores) ==
    LET sp500_pct == TwoWayBase(scores)[1]
        cw8_pct == TwoWayBase(scores)[2]
    IN  [sp500 |-> Min(sp500_pct + 10, 70),
         cw8 |-> Max(cw8_pct - 10, 30),
         description |-> <<"Higher concentration in best performer">>]

\* Variant of TwoWayAllocations whose conservative profile caps whichever
\* leg has the larger score.
TwoWayAllocationsCapHigherLeg(scores) ==
    LET sp500_pct == TwoWayBase(scores)[1]
        cw8_pct == TwoWayBase(scores)[2]
        cw8_higher == ScoreOf(scores, "cw8") > ScoreOf(scores, "sp500")
    IN  [conservative |->
            [sp500 |-> IF cw8_higher THEN 100 - Min(cw8_pct, 40)
                       ELSE Min(sp500_pct, 40),
             cw8 |-> IF cw8_higher THEN Min(cw8_pct, 40)
                     ELSE 100 - Min(sp500_pct, 40),
             description |-> <<"Lower risk, favor global diversification">>],
         moderate |->
            [sp500 |-> sp500_pct,
             cw8 |-> cw8_pct,
             description |-> <<"Balanced allocation based on current scores">>],
         aggressive |-> TwoWayAggressive(scores)]

TwoWayAllocations(scores) ==
    LET sp500_pct == TwoWayBase(scores)[1]
        cw8_pct == TwoWayBase(scores)[2]
    IN  [conservative |->
            [sp500 |-> Min(sp500_pct, 40),
             cw8 |-> 100 - Min(sp500_pct, 40),
             description |-> <<"Lower risk, favor global diversification">>],
         moderate |->
            [sp500 |-> sp500_pct,
             cw8 |-> cw8_pct,
             description |-> <<"Balanced allocation based on current scores">>],
         aggressive |-> TwoWayAggressive(scores)]

\* Variant of ThreeWayBase that floors the third leg like the first two.
ThreeWayBaseAllFloored(scores) ==
    LET total == ScoreOf(scores, "sp500") + ScoreOf(scores, "cw8")
                    + ScoreOf(scores, "stoxx600")
    IN  IF total > 0
        THEN << Max(0, IntPct(ScoreOf(scores, "sp500"), total)),
                Max(0, IntPct(ScoreOf(scores, "cw8"), total)),
                Max(0, IntPct(ScoreOf(scores, "stoxx600"), total)) >>
        ELSE <<33, 33, 34>>

\* The 3-way base split <<sp500_base, cw8_base, stoxx_base>>.
ThreeWayBase(scores) ==
    LET total == ScoreOf(scores, "sp500") + ScoreOf(scores, "cw8")
                    + ScoreOf(scores, "stoxx600")
    IN  IF total > 0
        THEN LET sp500_base == Max(0, IntPct(ScoreOf(scores, "sp500"), total))
                 cw8_base == Max(0, IntPct(ScoreOf(scores, "cw8"), total))
             IN  <<sp500_base, cw8_base, 100 - sp500_base - cw8_base>>
        ELSE <<33, 33, 34>>

\* Variant of SortedPosition in which reverse=True also reverses the order
\* of equal scores.
SortedPositionTiesReversed(scores, i) ==
    1 + Cardinality({j \in 1..Len(scores) :
                        \/ scores[j].score > scores[i].score
                        \/ scores[j].score = scores[i].score /\ j > i})

\* sorted(scores.items(), key=lambda x: x[1], reverse=True): stable, so
\* equal scores keep their insertion order.  Position of item i (1-based).
SortedPosition(scores, i) ==
    1 + Cardinality({j \in 1..Len(scores) :
                        \/ scores[j].score > scores[i].score
                        \/ scores[j].score = scores[i].score /\ j < i})

SortedIndices(scores) ==
    [p \in 1..Len(scores) |->
        scores[CHOOSE i \in 1..Len(scores) : SortedPosition(scores, i) = p].name]

Upper(name) ==
    CASE name = "sp500" -> "SP500"
      [] name = "cw8" -> "CW8"
      [] OTHER -> "STOXX600"

ThreeWayAggressive(scores) ==
    LET best == SortedIndices(scores)[1]
        second == SortedIndices(scores)[2]
        pct(name) == IF name = best THEN 60 ELSE IF name = second THEN 40 ELSE 0
    IN  [sp500 |-> pct("sp500"),
         cw8 |-> pct("cw8"),
         stoxx600 |-> pct("stoxx600"),
         description |->
            <<"Concentrated in best performers", Upper(best), Upper(second)>>]

\* Variant of ThreeWayAllocations whose conservative profile has the upper
\* clamps only.
ThreeWayAllocationsNoFloor(scores) ==
    LET sp500_base == ThreeWayBase(scores)[1]
        cw8_base == ThreeWayBase(scores)[2]
        stoxx_base == ThreeWayBase(scores)[3]
        cons_sp500 == Min(sp500_base, 30)
        cons_cw8 == Min(cw8_base, 40)
    IN  [conservative |->
            [sp500 |-> cons_sp500,
             cw8 |-> cons_cw8,
             stoxx600 |-> 100 - cons_sp500 - cons_cw8,
             description |->
                <<"EUR investor focus: Favor European exposure, no currency risk">>],
         moderate |->
            [sp500 |-> sp500_base,
             cw8 |-> cw8_base,
             stoxx600 |-> stoxx_base,
             description |->
                <<"Balanced allocation based on current opportunity scores">>],
         aggressive |-> ThreeWayAggressive(scores)]

ThreeWayAllocations(scores) ==
    LET sp500_base == ThreeWayBase(scores)[1]
        cw8_base == ThreeWayBase(scores)[2]
        stoxx_base == ThreeWayBase(scores)[3]
        cons_sp500 == Max(10, Min(sp500_base, 30))
        cons_cw8 == Max(20, Min(cw8_base, 40))
    IN  [conservative |->
            [sp500 |-> cons_sp500,
             cw8 |-> cons_cw8,
             stoxx600 |-> 100 - cons_sp500 - cons_cw8,
             description |->
                <<"EUR investor focus: Favor European exposure, no currency risk">>],
         moderate |->
            [sp500 |-> sp500_base,
             cw8 |-> cw8_base,
             stoxx600 |-> stoxx_base,
             description |->
                <<"Balanced allocation based on current opportunity scores">>],
         aggressive |-> ThreeWayAggressive(scores)]

Rationale(preference, has_stoxx600) ==
    IF has_stoxx600
    THEN CASE preference = "stoxx600" -> "STOXX 600 is preferred"
           [] preference = "sp500" -> "S&P 500 shows strength, but watch USD/EUR"
           [] preference = "cw8" -> "MSCI World offers global diversification"
           [] OTHER -> "All indices show similar opportunities. Diversify across all three"
    ELSE CASE preference = "sp500" -> "S&P 500 preferred, but monitor currency impact"
           [] preference = "cw8" -> "MSCI World preferred for global diversification"
           [] OTHER -> "Similar opportunities - diversify between both indices"

generate_diversification_suggestions(self, scores, preference, has_stoxx600) ==
    [allocations |-> IF has_stoxx600 THEN ThreeWayAllocations(scores)
                     ELSE TwoWayAllocations(scores),
     rationale |-> Rationale(preference, has_stoxx600),
     recommended_profile |-> self.risk_tolerance]

\* DecisionEngine.compare_recommendations.  Subscripting a None result
\* raises TypeError.
compare_recommendations(self, sp500, cw8, stoxx600) ==
    IF sp500.status = "none" \/ cw8.status = "none"
    THEN [status |-> "TypeError"]
    ELSE
    LET has_stoxx600 == stoxx600.status # "none"
        scores == CollectScores(sp500, cw8, stoxx600)
        pref == IF has_stoxx600 THEN ThreeWay(scores) ELSE TwoWay(scores)
        results == ResultList(sp500, cw8, stoxx600)
        verdict == Overall(results, pref.preference, has_stoxx600)
    IN  [status |-> "ok",
         preference |-> pref.preference,
         message |-> pref.message,
         overall_recommendation |-> verdict.overall,
         action |-> verdict.action,
         sp500_score |-> ScoreOf(scores, "sp500"),
         cw8_score |-> ScoreOf(scores, "cw8"),
         stoxx600_score |-> IF has_stoxx600 THEN Some(ScoreOf(scores, "stoxx600"))
                            ELSE None,
         score_difference |-> BestScore(scores) - WorstScore(scores),
         scores |-> scores,
         diversification |->
            generate_diversification_suggestions(self, scores, pref.preference,
                                                 has_stoxx600)]

----------------------------------------------------------------------------
(* Inputs of the scoring function.  A Factor Bundle holds the fields of     *)
(* DecisionFactors that generate_recommendation reads.                      *)

IndexNames == {"SP500", "CW8", "STOXX600"}

\* Accepted tokens, and tokens that are no value of RiskTolerance.
RiskTokens == RiskToleranceValues \cup {"balanced", "MODERATE"}

\* Example A of the specification: every evaluator at its most favourable.
ExampleA ==
    [dip_percentage |-> -80, rsi |-> 25, trend |-> "uptrend",
     golden_cross |-> TRUE, macd_bullish |-> TRUE,
     m2_yoy_growth |-> Some(60), m2_score |-> 20,
     overall_sentiment |-> 25, market_tone |-> "bullish", bullish_ratio |-> 30,
     recession_probability |-> 5, ai_bubble_risk |-> 10,
     volatility_level |-> "low",
     currency_risk_level |-> None, currency_change_pct |-> None,
     currency_impact |-> None]

\* Example B of the specification: every evaluator neutral, M2 absent.
ExampleB ==
    [dip_percentage |-> 0, rsi |-> 50, trend |-> "sideways",
     golden_cross |-> FALSE, macd_bullish |-> FALSE,
     m2_yoy_growth |-> None, m2_score |-> 0,
     overall_sentiment |-> 0, market_tone |-> "neutral", bullish_ratio |-> 25,
     recession_probability |-> 20, ai_bubble_risk |-> 30,
     volatility_level |-> "moderate",
     currency_risk_level |-> None, currency_change_pct |-> None,
     currency_impact |-> None]

\* A moderately favourable bundle carrying currency data, as the driver
\* builds for SP500 from assess_currency_risk (dollar strengthening).
WithCurrency ==
    [dip_percentage |-> -50, rsi |-> 40, trend |-> "sideways",
     golden_cross |-> FALSE, macd_bullish |-> TRUE,
     m2_yoy_growth |-> Some(35), m2_score |-> 10,
     overall_sentiment |-> 20, market_tone |-> "neutral", bullish_ratio |-> 25,
     recession_probability |-> 30, ai_bubble_risk |-> 40,
     volatility_level |-> "moderate",
     currency_risk_level |-> Some("low"), currency_change_pct |-> Some(-35),
     currency_impact |-> Some("positive")]

Baselines == {ExampleA, ExampleB, WithCurrency}

\* The labels generate_recommendation tests each enumerated field against,
\* with the remaining labels the collaborators produce.
TrendLabels ==
    {"strong_uptrend", "uptrend", "sideways", "downtrend", "strong_downtrend"}

VolatilityLevels == {"low", "moderate", "high"}

MarketTones == {"bullish", "bearish", "neutral"}

CurrencyRiskLevels == {"low", "moderate", "high"}

\* The fields of a bundle, in the order of the DecisionFactors dataclass.
FieldOrder ==
    << "dip_percentage", "rsi", "macd_bullish", "trend", "golden_cross",
       "volatility_level", "overall_sentiment", "market_tone", "bullish_ratio",
       "recession_probability", "ai_bubble_risk", "m2_yoy_growth", "m2_score",
       "currency_risk_level", "currency_change_pct", "currency_impact" >>

\* Representative values of each field: every band of every evaluator and
\* the values on the band edges.  The enumerated fields are plain str in
\* the dataclass, so a bundle can also carry a label outside the
\* enumeration ("flat", "mixed", "extreme", "severe").
FieldValues(name) ==
    CASE name = "dip_percentage" -> <<-80, -70, -50, -30, -10, 0>>
      [] name = "rsi" -> <<25, 30, 40, 50, 70, 71>>
      [] name = "trend" ->
            <<"strong_uptrend", "uptrend", "sideways", "downtrend",
              "strong_downtrend", "flat">>
      [] name = "golden_cross" -> <<TRUE, FALSE>>
      [] name = "macd_bullish" -> <<TRUE, FALSE>>
      [] name = "m2_yoy_growth" -> <<None, Some(60), Some(-20)>>
      [] name = "m2_score" -> <<20, 10, 9, 0, -14, -15>>
      [] name = "overall_sentiment" -> <<25, 20, 5, 0, -5, -20, -25>>
      [] name = "market_tone" -> <<"bullish", "bearish", "neutral", "mixed">>
      [] name = "bullish_ratio" -> <<25, 30>>
      [] name = "recession_probability" -> <<5, 10, 20, 30, 60, 61>>
      [] name = "ai_bubble_risk" -> <<10, 20, 30, 40, 60, 61>>
      [] name = "volatility_level" -> <<"low", "moderate", "high", "extreme">>
      [] name = "currency_risk_level" ->
            <<None, Some("low"), Some("moderate"), Some("high"),
              Some("severe")>>
      [] name = "currency_change_pct" -> <<None, Some(-35), Some(62)>>
      [] name = "currency_impact" ->
            <<None, Some("positive"), Some("negative"), Some("neutral")>>

\* How many fields of a baseline bundle are varied at once.
MaxVaried == 2

\* A change <<j, i>> sets field FieldOrder[j] to its i-th value; <<0, 0>>
\* changes nothing.
Changes ==
    {<<0, 0>>} \cup
    UNION { {<<j, i>> : i \in 1..Len(FieldValues(FieldOrder[j]))}
            : j \in 1..Len(FieldOrder) }

\* At most MaxVaried changes, of distinct fields in increasing order.
ChangeLists ==
    { c \in [1..MaxVaried -> Changes] :
        \A n \in 2..MaxVaried :
            \/ c[n-1][1] < c[n][1]
            \/ c[n-1][1] = 0 /\ c[n][1] = 0 }

RECURSIVE Changed(_, _, _)
Changed(base, c, n) ==
    IF n = 0 THEN base
    ELSE LET b == Changed(base, c, n - 1) IN
         IF c[n][1] = 0 THEN b
         ELSE [b EXCEPT ![FieldOrder[c[n][1]]] =
                        FieldValues(FieldOrder[c[n][1]])[c[n][2]]]

FactorBundles ==
    { Changed(base, c, MaxVaried) : base \in Baselines, c \in ChangeLists }

----------------------------------------------------------------------------
(* The scoring specification: an engine is constructed from a token and    *)
(* scores one Factor Bundle for one index.                                 *)

NoComparison == [status |-> "none"]

\* No generate_recommendation call is in progress.
NoCalls == <<>>

\* The driver before any command has run.
NoDriver ==
    [index |-> "none", available |-> {}, pos |-> 0, scored |-> {},
     force |-> FALSE, downloaded |-> {}, returned |-> "none"]

\* A Database object before connect(), on a path where no file exists.
NoDatabase ==
    [file |-> FALSE, conn |-> "none", tables |-> {}, historical_prices |-> {},
     metadata |-> {}, initialized |-> FALSE,
     call |-> "none", returned |-> "none", raised |-> "none"]

InitScore ==
    /\ risk_tolerance_arg = "none"
    /\ engine = NoEngine
    /\ index_name = "none"
    /\ factors = ExampleB
    /\ result = NoResult
    /\ sp500_result = NoResult
    /\ cw8_result = NoResult
    /\ stoxx600_result = NoResult
    /\ comparison = NoComparison
    /\ calls = NoCalls
    /\ db = NoDatabase
    /\ driver = NoDriver

\* decision_engine = DecisionEngine(risk_tolerance=token)
Construct ==
    /\ engine.status = "none"
    /\ \E token \in RiskTokens :
          /\ risk_tolerance_arg' = token
          /\ engine' = NewEngine(token)
    /\ UNCHANGED <<index_name, factors, result,
                   sp500_result, cw8_result, stoxx600_result, comparison,
                   calls, db,
                   driver>>

\* result = decision_engine.generate_recommendation(idx, f)
GenerateRecommendation ==
    /\ engine.status = "ok"
    /\ result.status = "none"
    /\ \E idx \in IndexNames, f \in FactorBundles :
          /\ index_name' = idx
          /\ factors' = f
          /\ result' = generate_recommendation(engine, idx, f)
    /\ UNCHANGED <<risk_tolerance_arg, engine,
                   sp500_result, cw8_result, stoxx600_result, comparison,
                   calls, db,
                   driver>>

NextScore == Construct \/ GenerateRecommendation

SpecScore == InitScore /\ [][NextScore]_vars

----------------------------------------------------------------------------
(* The comparison specification: an engine of each risk tolerance compares *)
(* two or three scoring results.  The comparator reads only the score and  *)
(* the recommendation of a result; the results are those the engine's own  *)
(* classification gives for each score.                                    *)

\* The scores range over the multiples of 5 (every delta of the evaluators
\* is one) from -5 * ScoreStepsBelow to 5 * ScoreStepsAbove, and over some
\* scores off that grid, which a raw m2_score produces.
ScoreStepsBelow == 4

ScoreStepsAbove == 16

OffGridScores == {29, 71}

ScoreValues ==
    {5 * k : k \in (-ScoreStepsBelow)..ScoreStepsAbove} \cup OffGridScores

ResultWithScore(self, score) ==
    LET final == Classify(score, Thresholds[self.risk_tolerance]) IN
    [status |-> "ok",
     recommendation |-> final.recommendation,
     confidence |-> final.confidence,
     score |-> score,
     reasons |-> <<>>,
     risk_factors |-> <<>>,
     risk_tolerance |-> self.risk_tolerance]

ScoringResults(self) == {ResultWithScore(self, s) : s \in ScoreValues}

InitCompare ==
    /\ risk_tolerance_arg \in RiskToleranceValues
    /\ engine = NewEngine(risk_tolerance_arg)
    /\ index_name = "none"
    /\ factors = ExampleB
    /\ result = NoResult
    /\ sp500_result \in ScoringResults(engine)
    /\ cw8_result \in ScoringResults(engine)
    /\ stoxx600_result \in ScoringResults(engine) \cup {NoResult}
    /\ comparison = NoComparison
    /\ calls = NoCalls
    /\ db = NoDatabase
    /\ driver = NoDriver

\* comparison = decision_engine.compare_recommendations(sp500, cw8, stoxx600)
CompareRecommendations ==
    /\ engine.status = "ok"
    /\ comparison.status = "none"
    /\ comparison' = compare_recommendations(engine, sp500_result, cw8_result,
                                             stoxx600_result)
    /\ UNCHANGED <<risk_tolerance_arg, engine, index_name, factors, result,
                   sp500_result, cw8_result, stoxx600_result, calls, db,
                   driver>>

NextCompare == CompareRecommendations

SpecCompare == InitCompare /\ [][NextCompare]_vars

----------------------------------------------------------------------------
(* The fan-out/fan-in specification: one engine scores the SP500, CW8 and  *)
(* STOXX600 bundles in calls whose evaluators interleave in any order, and *)
(* compares the results once all three are present.  Each call has its own *)
(* locals (score, reasons, risk_factors); the engine is shared.            *)

\* The locals of a generate_recommendation call that has not started.
NewCall(f) ==
    [phase |-> "running", pc |-> 0, factors |-> f, score |-> 0,
     reasons |-> <<>>, risk_factors |-> <<>>]

\* Number of evaluator blocks of generate_recommendation.
EvaluatorCount == Len(Evaluators("SP500", ExampleB))

\* Variant of RunEvaluator whose reasons and risk_factors lists are shared
\* by all the calls in progress instead of being locals of one call.
RunEvaluatorSharedLists(cs, idx) ==
    LET call == cs[idx]
        step == Evaluators(idx, call.factors)[call.pc + 1]
    IN  [i \in DOMAIN cs |->
            IF i = idx
            THEN IF step.raised
                 THEN [call EXCEPT !.phase = "raised"]
                 ELSE [call EXCEPT !.pc = @ + 1,
                                   !.score = @ + step.delta,
                                   !.reasons = @ \o step.reasons,
                                   !.risk_factors = @ \o step.risk_factors]
            ELSE IF /\ cs[i].phase = "running"
                    /\ cs[i].pc \in 1..(EvaluatorCount - 1)
                    /\ ~step.raised
            THEN [cs[i] EXCEPT !.reasons = @ \o step.reasons,
                               !.risk_factors = @ \o step.risk_factors]
            ELSE cs[i]]

\* The next evaluator block of the call for idx, acting on that call's
\* locals.
RunEvaluator(cs, idx) ==
    LET call == cs[idx]
        step == Evaluators(idx, call.factors)[call.pc + 1]
    IN  [cs EXCEPT ![idx] =
            IF step.raised
            THEN [call EXCEPT !.phase = "raised"]
            ELSE [call EXCEPT !.pc = @ + 1,
                              !.score = @ + step.delta,
                              !.reasons = @ \o step.reasons,
                              !.risk_factors = @ \o step.risk_factors]]

\* Lines 274-296: classify the call's score and build the result dict.
ReturnedResult(self, call) ==
    IF call.phase = "raised" THEN Raised("TypeError")
    ELSE LET final == Classify(call.score, Thresholds[self.risk_tolerance]) IN
         [status |-> "ok",
          recommendation |-> final.recommendation,
          confidence |-> final.confidence,
          score |-> call.score,
          reasons |-> call.reasons,
          risk_factors |-> call.risk_factors,
          risk_tolerance |-> self.risk_tolerance]

\* recommendations[idx]
RecommendationOf(idx) ==
    CASE idx = "SP500" -> sp500_result
      [] idx = "CW8" -> cw8_result
      [] idx = "STOXX600" -> stoxx600_result

\* A bundle whose currency risk level is set while the change is missing.
CurrencyChangeMissing ==
    [WithCurrency EXCEPT !.currency_risk_level = Some("high"),
                         !.currency_change_pct = None,
                         !.currency_impact = Some("very_negative")]

\* The bundles each index is scored with; the currency fields are populated
\* only for SP500.
BundlesFor(idx) ==
    IF idx = "SP500" THEN {ExampleA, WithCurrency, CurrencyChangeMissing}
    ELSE {ExampleA, ExampleB}

InitParallel ==
    /\ risk_tolerance_arg \in RiskToleranceValues
    /\ engine = NewEngine(risk_tolerance_arg)
    /\ index_name = "none"
    /\ factors = ExampleB
    /\ result = NoResult
    /\ sp500_result = NoResult
    /\ cw8_result = NoResult
    /\ stoxx600_result = NoResult
    /\ comparison = NoComparison
    /\ calls \in { cs \in [IndexNames -> {NewCall(f) : f \in Baselines
                                                      \cup {CurrencyChangeMissing}}] :
                      \A idx \in IndexNames : cs[idx].factors \in BundlesFor(idx) }
    /\ db = NoDatabase
    /\ driver = NoDriver

\* One evaluator block of one call.
EvaluateStep ==
    /\ \E idx \in IndexNames :
          /\ calls[idx].phase = "running"
          /\ calls[idx].pc < EvaluatorCount
          /\ calls' = RunEvaluator(calls, idx)
    /\ UNCHANGED <<risk_tolerance_arg, engine, index_name, factors, result,
                   sp500_result, cw8_result, stoxx600_result, comparison, db,
                   driver>>

\* recommendations[idx] = result, for a call that ran all its evaluators
\* or raised.
ReturnResult ==
    /\ \E idx \in IndexNames :
          /\ \/ calls[idx].phase = "running" /\ calls[idx].pc = EvaluatorCount
             \/ calls[idx].phase = "raised"
          /\ calls' = [calls EXCEPT ![idx].phase = "done"]
          /\ LET r == ReturnedResult(engine, calls[idx]) IN
             /\ sp500_result' = IF idx = "SP500" THEN r ELSE sp500_result
             /\ cw8_result' = IF idx = "CW8" THEN r ELSE cw8_result
             /\ stoxx600_result' =
                   IF idx = "STOXX600" THEN r ELSE stoxx600_result
    /\ UNCHANGED <<risk_tolerance_arg, engine, index_name, factors, result,
                   comparison, db,
                   driver>>

\* The fan-in: compare_recommendations once every result is present.
CompareAll ==
    /\ \A idx \in IndexNames : RecommendationOf(idx).status = "ok"
    /\ comparison.status = "none"
    /\ comparison' = compare_recommendations(engine, sp500_result, cw8_result,
                                             stoxx600_result)
    /\ UNCHANGED <<risk_tolerance_arg, engine, index_name, factors, result,
                   sp500_result, cw8_result, stoxx600_result, calls, db,
                   driver>>

NextParallel == EvaluateStep \/ ReturnResult \/ CompareAll

SpecParallel == InitParallel /\ [][NextParallel]_vars

----------------------------------------------------------------------------
(* The analysis driver (main): it constructs one engine, walks the indices *)
(* in a fixed order, scores those that are selected and have price data,   *)
(* and compares the results when at least two were scored.                 *)

\* for idx in ['SP500', 'CW8', 'STOXX600']
AnalysisOrder == <<"SP500", "CW8", "STOXX600">>

\* The values of --index, and index.upper().
IndexOptions == {"sp500", "cw8", "stoxx600", "all"}

OptionUpper(option) ==
    CASE option = "sp500" -> "SP500"
      [] option = "cw8" -> "CW8"
      [] option = "stoxx600" -> "STOXX600"
      [] OTHER -> "ALL"

\* The bundles the driver builds: currency fields, all three together, for
\* SP500 only.
DriverBundles(idx) ==
    IF idx = "SP500" THEN {ExampleA, WithCurrency} ELSE {ExampleA, ExampleB}

InitDriver ==
    /\ risk_tolerance_arg \in RiskToleranceValues
    /\ engine = NewEngine(risk_tolerance_arg)
    /\ index_name = "none"
    /\ factors = ExampleB
    /\ result = NoResult
    /\ sp500_result = NoResult
    /\ cw8_result = NoResult
    /\ stoxx600_result = NoResult
    /\ comparison = NoComparison
    /\ calls = NoCalls
    /\ db = NoDatabase
    /\ \E option \in IndexOptions, available \in SUBSET IndexNames :
          driver = [NoDriver EXCEPT !.index = option, !.available = available,
                                    !.pos = 1]

\* The loop body up to `continue`: the index is not selected, or its price
\* data is empty.
SkipIndex ==
    /\ driver.pos \in 1..Len(AnalysisOrder)
    /\ LET idx == AnalysisOrder[driver.pos] IN
          \/ driver.index # "all" /\ OptionUpper(driver.index) # idx
          \/ idx \notin driver.available
    /\ driver' = [driver EXCEPT !.pos = @ + 1]
    /\ UNCHANGED <<risk_tolerance_arg, engine, index_name, factors, result,
                   sp500_result, cw8_result, stoxx600_result, comparison,
                   calls, db>>

\* The loop body for a selected index with price data:
\* recommendations[idx] = decision_engine.generate_recommendation(idx, factors)
ScoreIndex ==
    /\ driver.pos \in 1..Len(AnalysisOrder)
    /\ LET idx == AnalysisOrder[driver.pos] IN
          /\ driver.index = "all" \/ OptionUpper(driver.index) = idx
          /\ idx \in driver.available
          /\ \E f \in DriverBundles(idx) :
                LET r == generate_recommendation(engine, idx, f) IN
                /\ index_name' = idx
                /\ factors' = f
                /\ result' = r
                /\ sp500_result' = IF idx = "SP500" THEN r ELSE sp500_result
                /\ cw8_result' = IF idx = "CW8" THEN r ELSE cw8_result
                /\ stoxx600_result' =
                      IF idx = "STOXX600" THEN r ELSE stoxx600_result
          /\ driver' = [driver EXCEPT !.pos = @ + 1,
                                      !.scored = @ \cup {idx}]
    /\ UNCHANGED <<risk_tolerance_arg, engine, comparison, calls, db>>

\* After the loop: the comparison, when len(recommendations) >= 2.
\* recommendations.get(idx) is None for an index that was not scored.
ComparativeAnalysis ==
    /\ driver.pos = Len(AnalysisOrder) + 1
    /\ Cardinality(driver.scored) >= 2
    /\ comparison' = compare_recommendations(engine, sp500_result, cw8_result,
                                             stoxx600_result)
    /\ driver' = [driver EXCEPT !.pos = @ + 1]
    /\ UNCHANGED <<risk_tolerance_arg, engine, index_name, factors, result,
                   sp500_result, cw8_result, stoxx600_result, calls, db>>

\* After the loop, with fewer than two results: no comparison.
NoComparativeAnalysis ==
    /\ driver.pos = Len(AnalysisOrder) + 1
    /\ Cardinality(driver.scored) < 2
    /\ driver' = [driver EXCEPT !.pos = @ + 1]
    /\ UNCHANGED <<risk_tolerance_arg, engine, index_name, factors, result,
                   sp500_result, cw8_result, stoxx600_result, comparison,
                   calls, db>>

NextDriver ==
    \/ SkipIndex
    \/ ScoreIndex
    \/ ComparativeAnalysis
    \/ NoComparativeAnalysis

SpecDriver == InitDriver /\ [][NextDriver]_vars

----------------------------------------------------------------------------
(* Database: the SQLite file at db_path and the connection to it.  Every   *)
(* writing method commits before it returns, so the file holds what the    *)
(* connection sees.                                                        *)

\* The tables initialize_schema creates.
SchemaTables ==
    {"historical_prices", "currency_adjusted_returns", "economic_indicators",
     "news_articles", "recommendations_log", "metadata"}

\* Dates of the rows of a DataFrame handed to store_historical_prices.
MaxDates == 2

Dates == 1..MaxDates

Closes == {100, 110}

StoredIndexNames == {"SP500", "EURUSD"}

MetadataKeys == {"last_update"}

MetadataValues == {"2024-01-01", "2024-01-02"}

\* A DataFrame indexed by date: at most one row per date.
DataFrames == UNION { [ds -> Closes] : ds \in SUBSET Dates }

\* The outcome of using self.conn: AttributeError before connect() (conn is
\* None), ProgrammingError on a closed connection.
ConnError(d) ==
    CASE d.conn = "none" -> "AttributeError"
      [] d.conn = "closed" -> "ProgrammingError"
      [] OTHER -> "none"

Returned(d, method, value) ==
    [d EXCEPT !.call = method, !.returned = value, !.raised = "none"]

Failed(d, method, error) ==
    [d EXCEPT !.call = method, !.returned = "none", !.raised = error]

\* Database.connect: sqlite3.connect creates the file when it is missing.
connect(d) ==
    Returned([d EXCEPT !.file = TRUE, !.conn = "open"], "connect", "conn")

\* Database.close
close(d) ==
    IF d.conn = "none" THEN Returned(d, "close", "None")
    ELSE Returned([d EXCEPT !.conn = "closed"], "close", "None")

\* Database.initialize_schema: CREATE TABLE IF NOT EXISTS for every table.
initialize_schema(d) ==
    IF ConnError(d) # "none" THEN Failed(d, "initialize_schema", ConnError(d))
    ELSE Returned([d EXCEPT !.tables = d.tables \cup SchemaTables,
                            !.initialized = TRUE],
                  "initialize_schema", "None")

\* INSERT OR REPLACE under UNIQUE(index_name, date).
Upsert(rows, name, df) ==
    { r \in rows : ~(r.index_name = name /\ r.date \in DOMAIN df) }
    \cup { [index_name |-> name, date |-> dt, close |-> df[dt]]
           : dt \in DOMAIN df }

\* Database.store_historical_prices
store_historical_prices(d, name, df) ==
    IF DOMAIN df = {} THEN Returned(d, "store_historical_prices", "None")
    ELSE IF ConnError(d) # "none"
    THEN Failed(d, "store_historical_prices", ConnError(d))
    ELSE IF "historical_prices" \notin d.tables
    THEN Failed(d, "store_historical_prices", "OperationalError")
    ELSE Returned([d EXCEPT !.historical_prices = Upsert(@, name, df)],
                  "store_historical_prices", "None")

\* Database.set_metadata: INSERT OR REPLACE on the primary key.
set_metadata(d, key, value) ==
    IF ConnError(d) # "none" THEN Failed(d, "set_metadata", ConnError(d))
    ELSE IF "metadata" \notin d.tables
    THEN Failed(d, "set_metadata", "OperationalError")
    ELSE Returned([d EXCEPT !.metadata =
                       { m \in @ : m.key # key }
                       \cup {[key |-> key, value |-> value]}],
                  "set_metadata", "None")

\* Variant of database_exists that also requires stored price rows.
database_exists_with_rows(d) ==
    IF ~d.file THEN Returned(d, "database_exists", FALSE)
    ELSE IF ConnError(d) # "none"
    THEN Failed(d, "database_exists", ConnError(d))
    ELSE Returned(d, "database_exists",
                  "historical_prices" \in d.tables /\ d.historical_prices # {})

\* Database.database_exists
database_exists(d) ==
    IF ~d.file THEN Returned(d, "database_exists", FALSE)
    ELSE IF ConnError(d) # "none"
    THEN Failed(d, "database_exists", ConnError(d))
    ELSE Returned(d, "database_exists", "historical_prices" \in d.tables)

InitDatabase ==
    /\ risk_tolerance_arg = "none"
    /\ engine = NoEngine
    /\ index_name = "none"
    /\ factors = ExampleB
    /\ result = NoResult
    /\ sp500_result = NoResult
    /\ cw8_result = NoResult
    /\ stoxx600_result = NoResult
    /\ comparison = NoComparison
    /\ calls = NoCalls
    /\ db = NoDatabase
    /\ driver = NoDriver

NotDatabase ==
    <<risk_tolerance_arg, engine, index_name, factors, result,
      sp500_result, cw8_result, stoxx600_result, comparison, calls, driver>>

Connect ==
    /\ db.conn # "open"
    /\ db' = connect(db)
    /\ UNCHANGED NotDatabase

Close ==
    /\ db.conn = "open"
    /\ db' = close(db)
    /\ UNCHANGED NotDatabase

InitializeSchema ==
    /\ db' = initialize_schema(db)
    /\ UNCHANGED NotDatabase

StoreHistoricalPrices ==
    /\ \E name \in StoredIndexNames, df \in DataFrames :
          db' = store_historical_prices(db, name, df)
    /\ UNCHANGED NotDatabase

SetMetadata ==
    /\ \E key \in MetadataKeys, value \in MetadataValues :
          db' = set_metadata(db, key, value)
    /\ UNCHANGED NotDatabase

DatabaseExists ==
    /\ db' = database_exists(db)
    /\ UNCHANGED NotDatabase

NextDatabase ==
    \/ Connect
    \/ Close
    \/ InitializeSchema
    \/ StoreHistoricalPrices
    \/ SetMetadata
    \/ DatabaseExists

SpecDatabase == InitDatabase /\ [][NextDatabase]_vars

----------------------------------------------------------------------------
(* initialize_database: the --init command of the driver.  It opens the    *)
(* database, returns when it is already initialized (unless forced),       *)
(* creates the schema, downloads the market data and stores what was       *)
(* downloaded.  Of the rows it writes, the model keeps those of            *)
(* historical_prices and metadata.                                         *)

\* The metadata key of an index: f'last_update_{index_name.lower()}'.
LastUpdateKey(name) ==
    CASE name = "SP500" -> "last_update_sp500"
      [] name = "EURUSD" -> "last_update_eurusd"

\* for index_name, data in all_data.items(): store the valid downloads.
RECURSIVE StoreAll(_, _, _)
StoreAll(d, names, df) ==
    IF names = {} THEN d
    ELSE LET name == CHOOSE n \in names : TRUE
             stored == store_historical_prices(d, name, df)
             noted == set_metadata(stored, LastUpdateKey(name), "2024-01-02")
         IN  StoreAll(noted, names \ {name}, df)

\* The database after initialize_database(force) when download_all_indices
\* returns `downloaded` and `valid` of them pass validate_data, and what
\* the function returned.
initialize_database(d, force, downloaded, valid, df) ==
    LET opened == connect(d)
        checked == database_exists(opened)
    IN  IF checked.returned = TRUE /\ ~force
        THEN [db |-> close(checked), returned |-> "already initialized"]
        ELSE LET created == initialize_schema(checked) IN
             IF downloaded = {}
             THEN [db |-> close(created), returned |-> "download failed"]
             ELSE LET stored == StoreAll(created, valid, df)
                      stamped == set_metadata(
                                     set_metadata(stored, "db_initialized",
                                                  "2024-01-02"),
                                     "db_version", "1.1")
                  IN  [db |-> close(stamped), returned |-> "complete"]

InitInitialize ==
    /\ risk_tolerance_arg = "none"
    /\ engine = NoEngine
    /\ index_name = "none"
    /\ factors = ExampleB
    /\ result = NoResult
    /\ sp500_result = NoResult
    /\ cw8_result = NoResult
    /\ stoxx600_result = NoResult
    /\ comparison = NoComparison
    /\ calls = NoCalls
    /\ db = NoDatabase
    /\ driver = NoDriver

\* One run of initialize_database.
InitializeDatabase ==
    /\ \E force \in BOOLEAN, downloaded \in SUBSET StoredIndexNames,
          df \in DataFrames \ {<<>>} :
          \E valid \in SUBSET downloaded :
              LET run == initialize_database(db, force, downloaded, valid, df)
              IN  /\ db' = run.db
                  /\ driver' = [driver EXCEPT !.force = force,
                                              !.downloaded = downloaded,
                                              !.returned = run.returned]
    /\ UNCHANGED <<risk_tolerance_arg, engine, index_name, factors, result,
                   sp500_result, cw8_result, stoxx600_result, comparison,
                   calls>>

NextInitialize == InitializeDatabase

SpecInitialize == InitInitialize /\ [][NextInitialize]_vars

----------------------------------------------------------------------------
(* The band table of the specification (section 4.1), factor by factor.    *)

TableDip(f) ==
    IF f.dip_percentage < -70 THEN 35
    ELSE IF f.dip_percentage < -50 THEN 30
    ELSE IF f.dip_percentage < -30 THEN 20
    ELSE IF f.dip_percentage < -10 THEN 10
    ELSE -5

TableRsi(f) ==
    IF f.rsi < 30 THEN 25
    ELSE IF f.rsi < 40 THEN 15
    ELSE IF f.rsi > 70 THEN -20
    ELSE IF f.rsi > 60 THEN -10
    ELSE 0

TableTrend(f) ==
    (IF f.trend \in {"strong_uptrend", "uptrend"} THEN 10
     ELSE IF f.trend \in {"strong_downtrend", "downtrend"} THEN -15
     ELSE 0)
    + (IF f.golden_cross THEN 5 ELSE 0)

TableMacd(f) == IF f.macd_bullish THEN 10 ELSE -5

TableM2(f) == IF f.m2_yoy_growth # None THEN f.m2_score ELSE 0

TableSentiment(f) ==
    IF f.overall_sentiment > 20 THEN 20
    ELSE IF f.overall_sentiment > 5 THEN 10
    ELSE IF f.overall_sentiment < -20 THEN -20
    ELSE IF f.overall_sentiment < -5 THEN -10
    ELSE 0

TableTone(f) ==
    IF f.market_tone = "bullish" /\ f.bullish_ratio > 25 THEN 10
    ELSE IF f.market_tone = "bearish" THEN -15
    ELSE 0

TableRecession(f) ==
    IF f.recession_probability > 60 THEN -40
    ELSE IF f.recession_probability > 30 THEN -20
    ELSE IF f.recession_probability < 10 THEN 5
    ELSE 0

TableBubble(f) ==
    IF f.ai_bubble_risk > 60 THEN -30
    ELSE IF f.ai_bubble_risk > 40 THEN -15
    ELSE IF f.ai_bubble_risk < 20 THEN 5
    ELSE 0

TableVolatility(f) ==
    CASE f.volatility_level = "high" -> -10
      [] f.volatility_level = "low" -> 5
      [] OTHER -> 0

TableCurrency(idx, f) ==
    IF idx = "STOXX600" THEN 5
    ELSE IF idx = "SP500" /\ f.currency_risk_level # None
    THEN CASE f.currency_risk_level = Some("high") -> -25
           [] f.currency_risk_level = Some("moderate") -> -15
           [] f.currency_impact = Some("positive") -> 10
           [] OTHER -> 0
    ELSE 0

TableTotal(idx, f) ==
    TableDip(f) + TableRsi(f) + TableTrend(f) + TableMacd(f) + TableM2(f)
    + TableSentiment(f) + TableTone(f) + TableRecession(f) + TableBubble(f)
    + TableVolatility(f) + TableCurrency(idx, f)

Scored == engine.status = "ok" /\ result.status = "ok"

Compared == comparison.status = "ok"

TwoWayCompared == Compared /\ stoxx600_result.status = "none"

ThreeWayCompared == Compared /\ stoxx600_result.status = "ok"

----------------------------------------------------------------------------
(* Claims *)

\* C1: the score generate_recommendation returns is the sum of the
\* per-factor contributions of the specification's band table, each factor
\* contributing the delta of the first band it matches.
C1_ScoreIsBandTableSum ==
    Scored => result.score = TableTotal(index_name, factors)

\* C1 witness: SP500 scored with a currency drag and a negative total.
C1_Witness ==
    /\ Scored
    /\ index_name = "SP500"
    /\ factors.currency_risk_level = Some("high")
    /\ ~factors.macd_bullish
    /\ result.score < 0

\* C2: the recommendation is decided by the threshold triple of the
\* engine's risk tolerance: STRONG_BUY iff score >= strong_buy, BUY iff
\* buy <= score < strong_buy, HOLD iff hold <= score < buy, AVOID iff
\* score < hold; one of the four categories is returned.
C2_ClassificationByThresholds ==
    Scored =>
        LET t == Thresholds[engine.risk_tolerance]
            s == result.score
            r == result.recommendation
        IN  /\ r \in RecommendationValues
            /\ (r = "STRONG_BUY") <=> (s >= t.strong_buy)
            /\ (r = "BUY") <=> (t.buy <= s /\ s < t.strong_buy)
            /\ (r = "HOLD") <=> (t.hold <= s /\ s < t.buy)
            /\ (r = "AVOID") <=> (s < t.hold)

\* C2 witness: a score exactly on the buy cutoff is classified BUY.
C2_Witness ==
    /\ Scored
    /\ result.score = Thresholds[engine.risk_tolerance].buy
    /\ result.recommendation = "BUY"

\* C3: the confidence lies in [0,1] and is min(score/100, cap) with cap
\* 0.95 for STRONG_BUY, 0.85 for BUY, 0.70 for HOLD, and
\* min(|score|/100, 0.80) for AVOID (confidence in hundredths).
C3_ConfidenceFormula ==
    Scored =>
        /\ 0 <= result.confidence /\ result.confidence <= 100
        /\ result.confidence =
              CASE result.recommendation = "STRONG_BUY" -> Min(result.score, 95)
                [] result.recommendation = "BUY" -> Min(result.score, 85)
                [] result.recommendation = "HOLD" -> Min(result.score, 70)
                [] OTHER -> Min(Abs(result.score), 80)

\* C3 witness: an AVOID with a negative score, confidence |score|/100.
C3_Witness ==
    /\ Scored
    /\ result.recommendation = "AVOID"
    /\ result.score < 0
    /\ result.confidence = -result.score

\* The number of compared results whose recommendation is in `cats`.
CountIn(cats) ==
    (IF sp500_result.recommendation \in cats THEN 1 ELSE 0)
    + (IF cw8_result.recommendation \in cats THEN 1 ELSE 0)
    + (IF stoxx600_result.status = "ok" /\ stoxx600_result.recommendation \in cats
       THEN 1 ELSE 0)

\* C4: the overall call of compare_recommendations follows from the
\* recommendation categories alone, for 2 and for 3 results: INVEST iff
\* buy_count >= 2, SELECTIVE iff buy_count = 1, WAIT iff buy_count = 0 with
\* at least one HOLD, AVOID iff every result is AVOID; one of the four.
C4_OverallCall ==
    Compared =>
        LET buy_count == CountIn({"STRONG_BUY", "BUY"})
            hold_count == CountIn({"HOLD"})
            avoid_count == CountIn({"AVOID"})
            n == IF stoxx600_result.status = "ok" THEN 3 ELSE 2
            o == comparison.overall_recommendation
        IN  /\ o \in {"INVEST", "SELECTIVE", "WAIT", "AVOID"}
            /\ (o = "INVEST") <=> (buy_count >= 2)
            /\ (o = "SELECTIVE") <=> (buy_count = 1)
            /\ (o = "WAIT") <=> (buy_count = 0 /\ hold_count >= 1)
            /\ (o = "AVOID") <=> (avoid_count = n)

\* C4 witness: three results, exactly one of them a buy: SELECTIVE.
C4_Witness ==
    /\ ThreeWayCompared
    /\ CountIn({"STRONG_BUY", "BUY"}) = 1
    /\ comparison.overall_recommendation = "SELECTIVE"

Profiles == {"conservative", "moderate", "aggressive"}

\* C5: in the two-index allocation of every profile the sp500 and cw8
\* percentages sum to exactly 100, the sum <= 0 fallback included.
C5_TwoIndexSumsTo100 ==
    TwoWayCompared =>
        \A p \in Profiles :
            LET a == comparison.diversification.allocations[p] IN
            a.sp500 + a.cw8 = 100

\* C5 witness: a two-index allocation where the aggressive cap of 70 and
\* the floor of 30 both apply.
C5_Witness ==
    /\ TwoWayCompared
    /\ sp500_result.score + cw8_result.score > 0
    /\ comparison.diversification.allocations["moderate"].sp500 > 60
    /\ comparison.diversification.allocations["aggressive"].sp500 = 70
    /\ comparison.diversification.allocations["aggressive"].cw8 = 30

\* C6: in the three-index allocation of every profile the sp500, cw8 and
\* stoxx600 percentages sum to exactly 100, the sum <= 0 fallback included.
C6_ThreeIndexSumsTo100 ==
    ThreeWayCompared =>
        \A p \in Profiles :
            LET a == comparison.diversification.allocations[p] IN
            a.sp500 + a.cw8 + a.stoxx600 = 100

\* C6 witness: a three-index split whose third leg is the forced
\* remainder, one more than its own floored share.
C6_Witness ==
    /\ ThreeWayCompared
    /\ sp500_result.score > 0 /\ cw8_result.score > 0 /\ stoxx600_result.score > 0
    /\ comparison.diversification.allocations["moderate"].stoxx600 >
          TruncDiv(100 * stoxx600_result.score,
                   sp500_result.score + cw8_result.score + stoxx600_result.score)

\* C7: with two results the preference is the higher-scoring index iff
\* the gap is strictly greater than 15 points, and "both" for every gap of
\* 15 or less.
C7_TwoWayPreference ==
    TwoWayCompared =>
        LET sp == sp500_result.score
            cw == cw8_result.score
        IN  /\ (comparison.preference = "sp500") <=> (sp - cw > 15)
            /\ (comparison.preference = "cw8") <=> (cw - sp > 15)
            /\ (comparison.preference = "both") <=> (Abs(sp - cw) <= 15)

\* C7 witness: a gap of exactly 15 points gives "both".
C7_Witness ==
    /\ TwoWayCompared
    /\ sp500_result.score - cw8_result.score = 15
    /\ comparison.preference = "both"

\* C8: with three results the preference is "multiple" iff max score minus
\* min score is less than 10, and otherwise the index whose score is
\* strictly greater than the scores of both other indices.
C8_ThreeWayStrictMaximum ==
    ThreeWayCompared =>
        LET score == [sp500 |-> sp500_result.score, cw8 |-> cw8_result.score,
                      stoxx600 |-> stoxx600_result.score]
            names == {"sp500", "cw8", "stoxx600"}
            spread == Max(Max(score.sp500, score.cw8), score.stoxx600)
                      - Min(Min(score.sp500, score.cw8), score.stoxx600)
        IN  /\ (comparison.preference = "multiple") <=> (spread < 10)
            /\ spread >= 10 =>
                  /\ comparison.preference \in names
                  /\ \A other \in names \ {comparison.preference} :
                        score[comparison.preference] > score[other]

\* C9: with any of the optional fields m2_yoy_growth, currency_risk_level,
\* currency_change_pct, currency_impact absent, generate_recommendation
\* returns a result (it never raises), the absent field contributes 0, and
\* the absence of M2 data is explained by a risk reason.
C9_MissingOptionalNeverRaises ==
    (/\ engine.status = "ok"
     /\ result.status # "none"
     /\ \/ factors.m2_yoy_growth = None
        \/ factors.currency_risk_level = None
        \/ factors.currency_change_pct = None
        \/ factors.currency_impact = None)
    => /\ result.status = "ok"
       /\ result.score = TableTotal(index_name, factors)
       /\ factors.m2_yoy_growth = None =>
             \E i \in 1..Len(result.risk_factors) :
                 result.risk_factors[i] = "M2 data not available"

\* C10: constructing a DecisionEngine with a token other than
\* conservative, moderate or aggressive fails with ValueError; no engine
\* exists afterwards and the token is not coerced to a profile.
C10_InvalidTokenFailsConstruction ==
    (/\ risk_tolerance_arg # "none"
     /\ risk_tolerance_arg \notin {"conservative", "moderate", "aggressive"})
    => /\ engine.status = "ValueError"
       /\ engine.risk_tolerance = "none"
       /\ result.status = "none"

\* C10 witness: the token MODERATE (wrong case) was refused.
C10_Witness ==
    /\ risk_tolerance_arg = "MODERATE"
    /\ engine.status = "ValueError"

\* C11: a bundle carrying a trend label, volatility level, market tone or
\* currency risk level outside its enumeration makes generate_recommendation
\* fail with an invalid-argument signal; it is never scored.
HasInvalidEnum(f) ==
    \/ f.trend \notin TrendLabels
    \/ f.volatility_level \notin VolatilityLevels
    \/ f.market_tone \notin MarketTones
    \/ /\ f.currency_risk_level # None
       /\ f.currency_risk_level \notin {Some(l) : l \in CurrencyRiskLevels}

C11_InvalidEnumFailsFast ==
    (result.status # "none" /\ HasInvalidEnum(factors))
        => result.status \in {"ValueError", "TypeError"}

\* Favourability of a recommendation: AVOID < HOLD < BUY < STRONG_BUY.
Rank(recommendation) ==
    CASE recommendation = "AVOID" -> 0
      [] recommendation = "HOLD" -> 1
      [] recommendation = "BUY" -> 2
      [] recommendation = "STRONG_BUY" -> 3

\* Position of a risk tolerance from conservative to aggressive.
Boldness(tolerance) ==
    CASE tolerance = "conservative" -> 0
      [] tolerance = "moderate" -> 1
      [] tolerance = "aggressive" -> 2

Tiers == {"strong_buy", "buy", "hold"}

\* C12: each cutoff is monotonic across the risk tolerances (conservative >=
\* moderate >= aggressive), within a tolerance strong_buy > buy > hold, and
\* the recommendation returned for a score is never more favourable than
\* what a bolder tolerance gives that score, nor less favourable than what
\* a more cautious tolerance gives it.
C12_ThresholdsMonotonic ==
    /\ \A tier \in Tiers :
          /\ Thresholds["conservative"][tier] >= Thresholds["moderate"][tier]
          /\ Thresholds["moderate"][tier] >= Thresholds["aggressive"][tier]
    /\ \A t \in RiskToleranceValues :
          /\ Thresholds[t].strong_buy > Thresholds[t].buy
          /\ Thresholds[t].buy > Thresholds[t].hold
    /\ Scored =>
          \A t \in RiskToleranceValues :
              LET other == Classify(result.score, Thresholds[t]).recommendation
              IN  /\ Boldness(t) >= Boldness(engine.risk_tolerance)
                        => Rank(other) >= Rank(result.recommendation)
                  /\ Boldness(t) <= Boldness(engine.risk_tolerance)
                        => Rank(other) <= Rank(result.recommendation)

\* A moderate engine returned BUY for a score that the aggressive
\* thresholds classify strictly more favourably.
C12_Witness ==
    /\ Scored
    /\ engine.risk_tolerance = "moderate"
    /\ result.recommendation = "BUY"
    /\ Rank(Classify(result.score, Thresholds["aggressive"]).recommendation)
          > Rank(result.recommendation)
    /\ Rank(Classify(result.score, Thresholds["conservative"]).recommendation)
          <= Rank(result.recommendation)

\* C13 as stated: the Example A bundle is scored 150 and classified
\* STRONG_BUY under every risk tolerance, whichever index it is scored for.
C13_ExampleAScores150 ==
    (Scored /\ factors = ExampleA)
        => result.score = 150 /\ result.recommendation = "STRONG_BUY"

\* C13 amended: the Example A bundle is scored 150 for SP500 and CW8 and
\* 155 for STOXX600 (the fixed +5 of the EUR-denominated index), and is
\* classified STRONG_BUY under every risk tolerance.
C13_ExampleAByIndex ==
    (Scored /\ factors = ExampleA)
        => /\ result.score = IF index_name = "STOXX600" THEN 155 ELSE 150
           /\ result.recommendation = "STRONG_BUY"

\* Example A was scored for SP500 by a conservative engine.
C13_Witness ==
    /\ Scored
    /\ factors = ExampleA
    /\ index_name = "SP500"
    /\ engine.risk_tolerance = "conservative"
    /\ result.score = 150

\* C14 as stated: the Example B bundle is scored -10, with no positive
\* contribution, and classified AVOID by a moderate engine, whichever
\* index it is scored for.
C14_ExampleBScoresMinus10 ==
    (Scored /\ factors = ExampleB /\ engine.risk_tolerance = "moderate")
        => /\ result.score = -10
           /\ result.reasons = <<>>
           /\ result.recommendation = "AVOID"

\* C14 amended: the Example B bundle is scored -10 for SP500 and CW8, where
\* only the dip and MACD evaluators contribute, and -5 for STOXX600, where
\* the fixed +5 of the EUR-denominated index is added with its reason; a
\* moderate engine classifies it AVOID in each case.
C14_ExampleBByIndex ==
    (Scored /\ factors = ExampleB /\ engine.risk_tolerance = "moderate")
        => /\ result.score = IF index_name = "STOXX600" THEN -5 ELSE -10
           /\ result.reasons =
                 IF index_name = "STOXX600"
                 THEN <<"No currency risk (EUR-denominated)">> ELSE <<>>
           /\ result.risk_factors = <<"Near high", "M2 data not available">>
           /\ result.recommendation = "AVOID"

\* Example B was scored for CW8 by a moderate engine.
C14_Witness ==
    /\ Scored
    /\ factors = ExampleB
    /\ index_name = "CW8"
    /\ engine.risk_tolerance = "moderate"
    /\ result.score = -10

\* The action texts that name an index.
ActionNaming(name) ==
    CASE name = "sp500" -> "Consider investing in S&P 500"
      [] name = "cw8" -> "Consider investing in MSCI World (CW8)"
      [] name = "stoxx600" ->
            "Consider investing in STOXX 600 (European focus, no FX risk)"

PreferredNames == {"sp500", "cw8", "stoxx600"}

\* C15 as stated: whenever the overall call is SELECTIVE, the action text
\* names an index, for the 2-result and the 3-result comparison.
C15_SelectiveNamesAnIndex ==
    (Compared /\ comparison.overall_recommendation = "SELECTIVE")
        => \E name \in PreferredNames : comparison.action = ActionNaming(name)

\* C15 amended: whenever the overall call is SELECTIVE and the preference is
\* a single index, the action text names that index; when the preference is
\* "both" or "multiple" the action is the generic selective-investment text.
C15_SelectiveNamesPreference ==
    (Compared /\ comparison.overall_recommendation = "SELECTIVE")
        => IF comparison.preference \in PreferredNames
           THEN comparison.action = ActionNaming(comparison.preference)
           ELSE /\ comparison.preference \in {"both", "multiple"}
                /\ comparison.action =
                     "Consider selective investment in better-performing indices"

\* A 2-result comparison was SELECTIVE with cw8 preferred.
C15_Witness ==
    /\ TwoWayCompared
    /\ comparison.overall_recommendation = "SELECTIVE"
    /\ comparison.preference = "cw8"

\* C20: in a 2-result comparison whose scores sum to more than 0, the
\* moderate profile gives sp500 floor(100 * sp500_score / (sp500_score +
\* cw8_score)) and cw8 the remainder to 100; when the sum is <= 0 the split
\* is 50/50.
C20_TwoIndexBaseSplitIsFloor ==
    TwoWayCompared =>
        LET total == sp500_result.score + cw8_result.score
            moderate == comparison.diversification.allocations.moderate
        IN  IF total > 0
            THEN /\ moderate.sp500 = (100 * sp500_result.score) \div total
                 /\ moderate.cw8 = 100 - moderate.sp500
            ELSE moderate.sp500 = 50 /\ moderate.cw8 = 50

\* C17: on a fresh database file, database_exists() on the open connection
\* returns true once initialize_schema has run, whatever store, metadata and
\* initialize_schema calls came after it, and false while initialize_schema
\* has never run.
C17_DatabaseExistsAfterSchema ==
    (db.call = "database_exists" /\ db.conn = "open")
        => /\ db.raised = "none"
           /\ db.returned = db.initialized

\* database_exists() returned true on a database that holds price rows and
\* metadata written after initialize_schema.
C17_Witness ==
    /\ db.call = "database_exists"
    /\ db.conn = "open"
    /\ db.returned = TRUE
    /\ db.initialized
    /\ db.historical_prices # {}
    /\ db.metadata # {}

\* C16: whatever the interleaving of the three scoring calls, each index's
\* result is the one the call gives when it runs alone (and its locals on
\* the way depend on its own bundle only), the comparison made
\* once all results are present is the one of those three results, and the
\* engine's risk tolerance and the results handed to the comparator are
\* left as they were.
C16_ScoringCallsIndependent ==
    /\ engine = NewEngine(risk_tolerance_arg)
    /\ \A idx \in IndexNames :
          IF calls[idx].phase = "done"
          THEN RecommendationOf(idx) =
                   generate_recommendation(engine, idx, calls[idx].factors)
          ELSE RecommendationOf(idx) = NoResult
    /\ \A idx \in IndexNames :
          calls[idx].phase = "running" =>
              LET ran == SubSeq(Evaluators(idx, calls[idx].factors),
                                1, calls[idx].pc)
              IN  /\ calls[idx].score = SumDeltas(ran)
                  /\ calls[idx].reasons = AllReasons(ran)
                  /\ calls[idx].risk_factors = AllRiskFactors(ran)
    /\ Compared =>
          comparison =
              compare_recommendations(
                  engine,
                  generate_recommendation(engine, "SP500", calls["SP500"].factors),
                  generate_recommendation(engine, "CW8", calls["CW8"].factors),
                  generate_recommendation(engine, "STOXX600",
                                          calls["STOXX600"].factors))

\* Three different bundles were scored and their results compared.
C16_Witness ==
    /\ Compared
    /\ calls["SP500"].factors = WithCurrency
    /\ calls["CW8"].factors = ExampleB
    /\ calls["STOXX600"].factors = ExampleA

\* C18: every evaluator that contributes a non-zero amount to the returned
\* score appends a reason: to the positive reasons when the contribution is
\* positive, to the risk reasons when it is negative.
C18_ReasonsReconcile ==
    Scored =>
        LET steps == Evaluators(index_name, factors) IN
        /\ result.score = SumDeltas(steps)
        /\ result.reasons = AllReasons(steps)
        /\ result.risk_factors = AllRiskFactors(steps)
        /\ \A i \in 1..Len(steps) :
              /\ steps[i].delta > 0 => steps[i].reasons # <<>>
              /\ steps[i].delta < 0 => steps[i].risk_factors # <<>>

Contains(seq, x) == \E i \in 1..Len(seq) : seq[i] = x

CurrencyBandReasons == {"CURRENCY DRAG", "Currency headwind", "Currency tailwind"}

\* C19: the part of the score that the other factors do not account for is,
\* for SP500 with a currency risk level, -25 when the level is high, -15
\* when moderate, +10 when it is neither and the impact is positive, and 0
\* otherwise; for STOXX600 it is +5, with the "no currency risk" reason and
\* no currency band reason; for CW8 it is 0.
C19_CurrencyEvaluator ==
    Scored =>
        LET contribution ==
                result.score
                - (TableTotal(index_name, factors)
                   - TableCurrency(index_name, factors))
            band_reason ==
                \E r \in CurrencyBandReasons :
                    Contains(result.reasons, r) \/ Contains(result.risk_factors, r)
        IN  CASE index_name = "SP500" /\ factors.currency_risk_level # None ->
                   IF factors.currency_risk_level = Some("high")
                   THEN contribution = -25
                   ELSE IF factors.currency_risk_level = Some("moderate")
                   THEN contribution = -15
                   ELSE IF factors.currency_impact = Some("positive")
                   THEN contribution = 10
                   ELSE contribution = 0
              [] index_name = "SP500" /\ factors.currency_risk_level = None ->
                   contribution = 0 /\ ~band_reason
              [] index_name = "STOXX600" ->
                   /\ contribution = 5
                   /\ Contains(result.reasons, "No currency risk (EUR-denominated)")
                   /\ ~band_reason
              [] index_name = "CW8" ->
                   contribution = 0 /\ ~band_reason

\* SP500 was scored with a high currency risk level and a positive impact:
\* the risk level decided the contribution.
C19_Witness ==
    /\ Scored
    /\ index_name = "SP500"
    /\ factors.currency_risk_level = Some("high")
    /\ factors.currency_impact = Some("positive")
    /\ Contains(result.risk_factors, "CURRENCY DRAG")

\* The allocations of the comparison, by profile.
Allocations == comparison.diversification.allocations

\* C21 as stated: in a 2-result comparison the conservative profile gives
\* the leg with the larger score at most 40% and the other leg the
\* remainder.
C21_ConservativeCapsHigherLeg ==
    TwoWayCompared =>
        /\ sp500_result.score > cw8_result.score =>
              /\ Allocations.conservative.sp500 <= 40
              /\ Allocations.conservative.cw8
                    = 100 - Allocations.conservative.sp500
        /\ cw8_result.score > sp500_result.score =>
              /\ Allocations.conservative.cw8 <= 40
              /\ Allocations.conservative.sp500
                    = 100 - Allocations.conservative.cw8

\* C21 amended: in a 2-result comparison the conservative profile gives the
\* sp500 leg its base share capped at 40% and the cw8 leg the remainder,
\* whichever leg has the larger score; so cw8 never receives less than 60%.
C21_ConservativeCapsSp500 ==
    TwoWayCompared =>
        /\ Allocations.conservative.sp500 = Min(Allocations.moderate.sp500, 40)
        /\ Allocations.conservative.cw8 = 100 - Allocations.conservative.sp500
        /\ Allocations.conservative.sp500 <= 40
        /\ Allocations.conservative.cw8 >= 60

\* cw8 had the larger score and the conservative profile gave it more than
\* its base share, sp500 being capped.
C21_Witness ==
    /\ TwoWayCompared
    /\ cw8_result.score > sp500_result.score
    /\ Allocations.moderate.sp500 > 40
    /\ Allocations.conservative.sp500 = 40
    /\ Allocations.conservative.cw8 = 60

\* C22: in a 2-result comparison the aggressive profile gives the leg with
\* the larger score its base share plus 10, capped at 70%, and the other
\* leg the remainder.
C22_AggressiveBoostsHigherLeg ==
    TwoWayCompared =>
        /\ sp500_result.score > cw8_result.score =>
              /\ Allocations.aggressive.sp500
                    = Min(Allocations.moderate.sp500 + 10, 70)
              /\ Allocations.aggressive.cw8 = 100 - Allocations.aggressive.sp500
        /\ cw8_result.score > sp500_result.score =>
              /\ Allocations.aggressive.cw8
                    = Min(Allocations.moderate.cw8 + 10, 70)
              /\ Allocations.aggressive.sp500 = 100 - Allocations.aggressive.cw8

\* C23: in a 3-result comparison, fallback included, the conservative
\* profile gives sp500 between 10 and 30, cw8 between 20 and 40, and
\* stoxx600 the remainder to 100, which lies between 30 and 70.
C23_ThreeIndexConservativeClamps ==
    ThreeWayCompared =>
        /\ Allocations.conservative.sp500 \in 10..30
        /\ Allocations.conservative.cw8 \in 20..40
        /\ Allocations.conservative.stoxx600
              = 100 - Allocations.conservative.sp500
                    - Allocations.conservative.cw8
        /\ Allocations.conservative.stoxx600 \in 30..70

\* Both lower clamps acted: the base shares of sp500 and cw8 were below 10
\* and 20.
C23_Witness ==
    /\ ThreeWayCompared
    /\ Allocations.moderate.sp500 < 10
    /\ Allocations.moderate.cw8 < 20
    /\ Allocations.conservative.sp500 = 10
    /\ Allocations.conservative.cw8 = 20
    /\ Allocations.conservative.stoxx600 = 70

\* The score of an index in the compared results, and the fixed enumeration
\* order of the indices.
ComparedScore(name) ==
    CASE name = "sp500" -> sp500_result.score
      [] name = "cw8" -> cw8_result.score
      [] name = "stoxx600" -> stoxx600_result.score

EnumerationOrder(name) ==
    CASE name = "sp500" -> 1
      [] name = "cw8" -> 2
      [] name = "stoxx600" -> 3

Outranks(a, b) ==
    \/ ComparedScore(a) > ComparedScore(b)
    \/ ComparedScore(a) = ComparedScore(b)
          /\ EnumerationOrder(a) < EnumerationOrder(b)

\* C24: in a 3-result comparison the aggressive profile gives 60 to the
\* index no other outranks, 40 to the index one other outranks and 0 to the
\* third, an index outranking another when its score is larger or, the
\* scores being equal, when it comes first in sp500, cw8, stoxx600.
C24_ThreeIndexAggressiveTopTwo ==
    ThreeWayCompared =>
        \A name \in PreferredNames :
            LET above == Cardinality({o \in PreferredNames : Outranks(o, name)})
            IN  Allocations.aggressive[name] =
                    CASE above = 0 -> 60
                      [] above = 1 -> 40
                      [] above = 2 -> 0

\* cw8 and stoxx600 tied above sp500: cw8 received 60 and stoxx600 40.
C24_Witness ==
    /\ ThreeWayCompared
    /\ cw8_result.score = stoxx600_result.score
    /\ cw8_result.score > sp500_result.score
    /\ Allocations.aggressive.cw8 = 60
    /\ Allocations.aggressive.stoxx600 = 40
    /\ Allocations.aggressive.sp500 = 0

\* C25: in every comparison, of 2 or of 3 results, every leg of every
\* profile is between 0 and 100.
C25_PercentagesWithin0To100 ==
    Compared =>
        \A profile \in Profiles :
            /\ Allocations[profile].sp500 \in 0..100
            /\ Allocations[profile].cw8 \in 0..100
            /\ ThreeWayCompared => Allocations[profile].stoxx600 \in 0..100

\* The compared result of an index.
ComparedResult(name) ==
    CASE name = "sp500" -> sp500_result
      [] name = "cw8" -> cw8_result
      [] name = "stoxx600" -> stoxx600_result

BuySignals == {"BUY", "STRONG_BUY"}

\* C26: the compared results being those of one engine, whenever the
\* overall call is SELECTIVE and the preference is a single index, that
\* index is classified BUY or STRONG_BUY and is the only one that is.
C26_SelectiveNamesTheBuy ==
    (/\ Compared
     /\ comparison.overall_recommendation = "SELECTIVE"
     /\ comparison.preference \in PreferredNames)
        => /\ ComparedResult(comparison.preference).recommendation \in BuySignals
           /\ \A name \in PreferredNames \ {comparison.preference} :
                 (name = "stoxx600" => ThreeWayCompared)
                    => ComparedResult(name).recommendation \notin BuySignals

\* A 3-result comparison was SELECTIVE and named stoxx600.
C26_Witness ==
    /\ ThreeWayCompared
    /\ comparison.overall_recommendation = "SELECTIVE"
    /\ comparison.preference = "stoxx600"
    /\ stoxx600_result.recommendation \in BuySignals

\* C27: the result returned for CW8 or STOXX600 is the result the same
\* engine returns for the bundle without currency data, so two bundles that
\* differ in the three currency fields only give one and the same result.
C27_CurrencyFieldsOnlyAffectSp500 ==
    (result.status # "none" /\ index_name \in {"CW8", "STOXX600"})
        => result =
              generate_recommendation(
                  engine, index_name,
                  [factors EXCEPT !.currency_risk_level = None,
                                  !.currency_change_pct = None,
                                  !.currency_impact = None])

\* CW8 was scored with a bundle whose currency fields would raise for SP500.
C27_Witness ==
    /\ Scored
    /\ index_name = "CW8"
    /\ factors.currency_risk_level = Some("high")
    /\ factors.currency_change_pct = None

\* C28: in the analysis driver, whatever price data is available, whenever
\* at least two indices were scored the comparison is made with actual
\* results for SP500 and CW8 and completes with a result.
C28_ComparatorGetsBothResults ==
    (driver.pos = Len(AnalysisOrder) + 2 /\ Cardinality(driver.scored) >= 2)
        => /\ sp500_result.status = "ok"
           /\ cw8_result.status = "ok"
           /\ comparison.status = "ok"

\* C29: when initialize_database returned False because nothing could be
\* downloaded, database_exists() is false on the database it leaves, so the
\* next initialize_database(force=False) does not answer "already
\* initialized".
C29_FailedInitNotMarkedInitialized ==
    driver.returned = "download failed" =>
        /\ database_exists(connect(db)).returned = FALSE
        /\ \A downloaded \in SUBSET StoredIndexNames, df \in DataFrames \ {<<>>} :
              initialize_database(db, FALSE, downloaded, downloaded, df).returned
                  # "already initialized"

\* C30: the threshold triple of a constructed engine is the configured
\* risk profile of its tolerance, and every score it classified is
\* classified the same under the configured profile.
C30_ThresholdsEqualRiskProfiles ==
    engine.status = "ok" =>
        /\ Thresholds[engine.risk_tolerance] = RISK_PROFILES[engine.risk_tolerance]
        /\ Scored =>
              result.recommendation =
                  Classify(result.score,
                           RISK_PROFILES[engine.risk_tolerance]).recommendation

====
